---- MODULE Spec2Model ----
(***************************************************************************)
(* Drone mission coordinator (socket server) and drone simulator.          *)
(*                                                                         *)
(* Numbers.  Coordinates are integers of a local planar grid, distances    *)
(* are grid units (the source's haversine metres and its local tangent     *)
(* plane metres are the same length here).  Battery is kept in hundredths  *)
(* of a percent, progress in hundredths of a percent (toFixed(2)).         *)
(* The telemetry fields speed, temperature, current and voltage are        *)
(* carried by no decision of the code and are left out of the report.      *)
(***************************************************************************)
EXTENDS Integers, Sequences, FiniteSets, TLC

\* ------------------------------------------------------------------ bounds
MaxCmds == 2
MaxRunCmds == 3
MaxConnects == 2
MaxLoops == 2
MaxQueue == 1
MaxCalls == 2
MaxFlown == 30
MaxGrid == 4
GridStep == 5

\* --------------------------------------------------------- program constants
stepsPerSegment == 15
BatchSize == 20
RampStep == 5
BatteryDrain == 5
BatteryFluct == 2
FullBattery == 10000

None == "none"
\* progress of a report whose distanceTraveled / totalDistance was 0 / 0
NaN == -1

Drones == {"d1", "d2"}
Missions == {"m1", "m2"}
Actions == {"start", "pause", "abort"}


\* ------------------------------------------------------------------ helpers
Min(a, b) == IF a < b THEN a ELSE b
Max(a, b) == IF a > b THEN a ELSE b

\* Math.round: the nearest integer of n/d (d > 0), halves upwards.
RoundDiv(n, d) == (2 * n + d) \div (2 * d)

\* Math.sqrt on the squares the routes produce.
ISqrt(x) == CHOOSE k \in 0..x : k * k <= x /\ (k + 1) * (k + 1) > x

lerp(a, b, num, den) == a + ((b - a) * num) \div den

haversineDistance(lat1, lon1, lat2, lon2) ==
    ISqrt((lat2 - lat1) * (lat2 - lat1) + (lon2 - lon1) * (lon2 - lon1))

\* C22's mutant: the projection without the clamp of t to [0, 1]
projectPointOntoSegmentUnclamped(Ax, Ay, Bx, By, Px, Py) ==
    LET ABx == Bx - Ax
        ABy == By - Ay
        APx == Px - Ax
        APy == Py - Ay
        ab2 == ABx * ABx + ABy * ABy
        dot == APx * ABx + APy * ABy
        ap2 == APx * APx + APy * APy
        td == IF ab2 = 0 THEN 1 ELSE ab2
        tn == IF ab2 = 0 THEN 0 ELSE dot
        segLen == ISqrt(ab2)
    IN  [tn |-> tn, td |-> td,
         d2n |-> ap2 * td - 2 * tn * dot + (tn * tn * ab2) \div td,
         d2d |-> td,
         distAlongSegment |-> (segLen * tn) \div td,
         segLen |-> segLen]

\* t is the fraction tn/td; d2n/d2d the squared distance to the projection.
projectPointOntoSegment(Ax, Ay, Bx, By, Px, Py) ==
    LET ABx == Bx - Ax
        ABy == By - Ay
        APx == Px - Ax
        APy == Py - Ay
        ab2 == ABx * ABx + ABy * ABy
        dot == APx * ABx + APy * ABy
        ap2 == APx * APx + APy * APy
        td == IF ab2 = 0 THEN 1 ELSE ab2
        raw == IF ab2 = 0 THEN 0 ELSE dot
        tn == IF raw < 0 THEN 0 ELSE IF raw > td THEN td ELSE raw
        segLen == ISqrt(ab2)
    IN  [tn |-> tn, td |-> td,
         \* |P - (A + AB t)|^2 = |AP|^2 - 2 t dot + t^2 ab2, over td
         d2n |-> ap2 * td - 2 * tn * dot + (tn * tn * ab2) \div td,
         d2d |-> td,
         distAlongSegment |-> (segLen * tn) \div td,
         segLen |-> segLen]

\* The comparison of the scan with <= in place of <: the last of several
\* segments at the least distance would be kept.
CloserThanOrEqual(a, b) == a.d2n * b.d2d <= b.d2n * a.d2d

\* a.d2n / a.d2d < b.d2n / b.d2d
CloserThan(a, b) == a.d2n * b.d2d < b.d2n * a.d2d

RECURSIVE PrefixSum(_, _)
PrefixSum(path, i) ==
    IF i <= 1 THEN 0
    ELSE PrefixSum(path, i - 1)
         + haversineDistance(path[i - 1][1], path[i - 1][2], path[i][1], path[i][2])

\* The scan of findClosestPointOnPath over segments k..Len(path)-1 (1-based
\* segment k joins path[k] and path[k+1]); best is the record kept so far,
\* best.found is FALSE while distanceToProjection is still Infinity.
RECURSIVE ClosestScan(_, _, _, _, _)
ClosestScan(path, lat, lon, k, best) ==
    IF k > Len(path) - 1 THEN best
    ELSE LET proj == projectPointOntoSegment(path[k][1], path[k][2],
                                             path[k + 1][1], path[k + 1][2], lat, lon)
             better == (~best.found) \/ CloserThan(proj, best)
             nb == IF better
                   THEN [found |-> TRUE, segmentIndex |-> k - 1,
                         tn |-> proj.tn, td |-> proj.td,
                         d2n |-> proj.d2n, d2d |-> proj.d2d,
                         distanceTraveled |-> PrefixSum(path, k) + proj.distAlongSegment]
                   ELSE best
         IN  ClosestScan(path, lat, lon, k + 1, nb)

findClosestPointOnPath(path, lat, lon) ==
    LET zero == [found |-> FALSE, segmentIndex |-> 0, tn |-> 0, td |-> 1,
                 d2n |-> 0, d2d |-> 1, distanceTraveled |-> 0]
    IN  IF Len(path) = 0 THEN [zero EXCEPT !.found = TRUE]
        ELSE IF Len(path) = 1
        THEN [zero EXCEPT !.found = TRUE,
                          !.d2n = (path[1][1] - lat) * (path[1][1] - lat)
                                  + (path[1][2] - lon) * (path[1][2] - lon)]
        ELSE ClosestScan(path, lat, lon, 1, zero)

\* ------------------------------------------------------------------ state
VARIABLES
    connectedDrones,   \* server: droneId -> DroneInfo, or None
    mapOrder,          \* server: the keys of connectedDrones in insertion order
    closing,           \* sockets the client side has left and the server has yet to see close
    recentTelemetry,   \* server: missionId -> reports since the last flush
    missionStatus,     \* store: missions.status
    env,               \* store rows that never change in a run, and the scoring service
    live,              \* droneId -> id of its open socket, 0 when it has none
    nextSock,          \* socket ids handed out so far
    toDrone,           \* messages in flight, server to the simulator's socket
    toServer,          \* messages in flight, simulator's socket to server
    calls,             \* server: telemetry handler calls suspended at an await
    sim,               \* the DroneSimulator object of the simulator process
    loops,             \* its suspended resumeMission / rampUpAltitude calls
    cmds,              \* dashboard messages sent so far
    lastOp,            \* history: the handler that ran last and its input
    emitted,           \* history: what that handler emitted, in order
    hist               \* history: reports and completions seen so far

vars == <<connectedDrones, mapOrder, closing, recentTelemetry, missionStatus, env, live, nextSock,
          toDrone, toServer, calls, sim, loops, cmds, lastOp, emitted, hist>>

Sim == "d1"

Last(q) == q[Len(q)]

\* ---------------------------------------------------------------- records
Report(m, lat, lon, alt, bat, prog) ==
    [mission_id |-> m, latitude |-> lat, longitude |-> lon,
     altitude_meters |-> alt, battery_percent |-> bat, progress |-> prog,
     infection_score |-> 0, weed_score |-> 0, yield_score |-> 0]

NoReport == Report(None, 0, 0, 0, 0, 0)

TelemetryMsg(r) == [ev |-> "telemetry", data |-> r]
CompleteMsg(m) == [ev |-> "mission-complete", data |-> Report(m, 0, 0, 0, 0, 0)]

\* origin is history: "connection" for the payload pushed to a connecting drone.
ChangeStatusMsg(m, paused, recent, status, origin) ==
    [ev |-> "change-drone-status", mission |-> m, isPaused |-> paused,
     recentTelemetry |-> recent, status |-> status, action |-> None, origin |-> origin]

ControlMsg(m, a) ==
    [ev |-> "mission-control", mission |-> m, isPaused |-> FALSE,
     recentTelemetry |-> <<>>, status |-> None, action |-> a, origin |-> "dashboard"]

Emit(to, ev, m, n) == [to |-> to, ev |-> ev, mission |-> m, n |-> n]
Op(op, d, m, arg) == [op |-> op, drone |-> d, mission |-> m, arg |-> arg]

DroneInfo(d, s, m, p, st) ==
    [droneId |-> d, socketId |-> s, missionId |-> m, isPaused |-> p, status |-> st]

Path(m) == env.table[m].pathline
TargetAltitude(m) == env.table[m].altitude_meters

\* -------------------------------------------------------- history (no code)
Tick(i, step, dist) == [i |-> i, step |-> step, dist |-> dist]
NoTick == Tick(-1, -1, -1)
NoProgress == NaN - 1
\* The k-th traversing report of a Run started once and not disturbed since:
\* the loop variables and the position it carried.
Fresh(k, i, step, lat, lon) == [k |-> k, i |-> i, step |-> step, lat |-> lat, lon |-> lon]
NoFresh == Fresh(0, -1, -1, 0, 0)

HistInit ==
    [lastRx |-> [m \in Missions |-> NoReport],    \* the last report the server received
     travRx |-> [m \in Missions |-> FALSE],       \* it received a traversing report
     completes |-> [m \in Missions |-> 0],
     lastTick |-> NoTick,      \* the last traversing report the process emitted
     phase |-> "none",         \* none -> paused -> armed -> seen
     before |-> NoTick,        \* the last traversing report before the pause
     after |-> NoTick,         \* the first traversing report after the start
     starts |-> 0,             \* start commands the process handled for its Run
     disturbed |-> FALSE,      \* the Run was paused, aborted, cleared or resynced
     prevProg |-> NoProgress,  \* progress of the report before the last one
     lastProg |-> NoProgress,  \* progress of the last report
     done |-> FALSE,           \* the completion message followed that report
     stopped |-> FALSE,        \* a pause or abort was handled, and no start since
     again |-> FALSE,          \* the last control command was a pause met paused
     fresh |-> NoFresh,        \* the last traversing report since a fresh start
     cached |-> FALSE,         \* the last assignment handled carried a cached report
     \* kept by the steps of the telemetry handler (SrvTelemetryRecv and on);
     \* a report's number is its place in the order of arrival at the server
     nrx |-> 0,                                   \* reports numbered so far
     order |-> [m \in Missions |-> <<>>],         \* numbers of recentTelemetry[m]
     pushed |-> 0,             \* number of the report pushed last
     pushedMax |-> 0,          \* greatest number pushed so far
     cast |-> 0,               \* number of the report broadcast last
     castMax |-> 0,            \* greatest number broadcast so far
     batch |-> <<>>,           \* numbers of the rows of the last insert issued
     issued |-> 0,             \* greatest number handed to an insert before it
     durable |-> {},           \* numbers of the inserts the store accepted
     ai |-> None]              \* the scoring service's answer to the last call

\* The process-side history starts anew with the process.
HistRestart(h) ==
    [HistInit EXCEPT !.lastRx = h.lastRx, !.travRx = h.travRx, !.completes = h.completes,
                     !.nrx = h.nrx, !.order = h.order, !.pushed = h.pushed,
                     !.pushedMax = h.pushedMax, !.cast = h.cast, !.castMax = h.castMax,
                     !.batch = h.batch, !.issued = h.issued, !.durable = h.durable,
                     !.ai = h.ai]

\* A new Run is bound to an idle simulator.
HistRun(h) == HistRestart(h)

\* The history after a call ran: r is its Ran record.
HistRan(h, r) ==
    LET rep == IF r.tick = "none" THEN NoReport ELSE r.out[1].data
        completed == r.out # <<>> /\ Last(r.out).ev = "mission-complete"
        cm == IF completed THEN Last(r.out).data.mission_id ELSE None
        h1 == IF r.tick = "none" THEN h
              ELSE [h EXCEPT !.prevProg = h.lastProg, !.lastProg = rep.progress]
        h2 == IF r.tick = "none" THEN h1
              ELSE IF r.tick = "ramp" THEN [h1 EXCEPT !.lastTick = NoTick]
              ELSE LET tk == Tick(r.loop.i, r.loop.step, r.dist)
                   IN  [h1 EXCEPT !.lastTick = IF completed THEN NoTick ELSE tk,
                                  !.fresh = IF h.starts = 1 /\ ~h.disturbed
                                            THEN Fresh(h.fresh.k + 1, r.loop.i, r.loop.step,
                                                       rep.latitude, rep.longitude)
                                            ELSE NoFresh,
                                  !.after = IF h.phase = "armed" THEN tk ELSE h.after,
                                  !.phase = IF h.phase = "armed" THEN "seen" ELSE h.phase]
    IN  IF completed
        THEN [h2 EXCEPT !.completes[cm] = Min(2, @ + 1), !.done = TRUE]
        ELSE h2

\* The history after the server received report r.
HistReport(h, r) ==
    IF r.mission_id \in Missions
    THEN [h EXCEPT !.lastRx[r.mission_id] = r,
                   !.travRx[r.mission_id] = @ \/ (r.progress > 0)]
    ELSE h

\* A droneId the Map has no entry for.
NoEntry(d) == DroneInfo(d, 0, None, None, "absent")
Flag(b) == IF b THEN "true" ELSE "false"

\* C10's mutant: the lookup without its comparison of missionId
OwnersOfAny(m) == {d \in Drones : connectedDrones[d].status # "absent"}

\* [...connectedDrones.values()].find(d => d.missionId === missionId)
OwnersOf(m) ==
    {d \in Drones : connectedDrones[d].status # "absent" /\ connectedDrones[d].missionId = m}

\* find returns the first match in the Map's insertion order
FindOwner(m) ==
    LET at == {j \in 1..Len(mapOrder) : mapOrder[j] \in OwnersOf(m)}
    IN  mapOrder[CHOOSE j \in at : \A k \in at : j <= k]

\* io.to(room).emit towards the simulator's socket: it arrives when the room
\* holds that socket, and goes nowhere otherwise.
Deliver(q, d, open, msg) == IF d = Sim /\ open THEN Append(q, msg) ELSE q

\* The mission controls of the dashboard: the button of action a for mission
\* m is enabled.  selectedDrone is the entry bound to the mission.
ControlEnabled(m, a) ==
    CASE a = "start" -> missionStatus[m] # "running" /\ OwnersOf(m) # {}
      [] a = "pause" -> missionStatus[m] = "running"
      [] OTHER -> missionStatus[m] \notin {"completed", "aborted"}

\* Every dashboard message counts against the run's budget of them.
CmdLeft == cmds < env.maxCmds

\* ------------------------------------------------------------ server handlers
\* MissionDetails.handleMissionControl, then socket.on('mission-control')
SrvMissionControl(m, a) ==
    /\ CmdLeft
    /\ cmds' = cmds + 1
    /\ missionStatus' = [missionStatus EXCEPT ![m] =
           CASE a = "start" -> "running" [] a = "pause" -> "paused" [] OTHER -> "aborted"]
    /\ lastOp' = Op("mission-control", IF OwnersOf(m) = {} THEN None ELSE FindOwner(m), m, a)
    /\ IF OwnersOf(m) = {}
       THEN /\ emitted' = <<>>
            /\ UNCHANGED <<connectedDrones, toDrone>>
       ELSE LET d == FindOwner(m)
                drone == connectedDrones[d]
            IN  /\ connectedDrones' = [connectedDrones EXCEPT ![d] =
                       [drone EXCEPT
                          !.isPaused = IF a = "pause" THEN "true"
                                       ELSE IF a = "start" THEN "false" ELSE drone.isPaused,
                          !.status = IF a = "abort" THEN "idle" ELSE drone.status]]
                /\ toDrone' = Deliver(toDrone, d, live[d] # 0 /\ live[d] = drone.socketId,
                                      ControlMsg(m, a))
                /\ emitted' = <<Emit(d, "mission-control", m, 0),
                                Emit("dashboard", "available-drones", None, 0)>>
    /\ UNCHANGED <<mapOrder, closing>>
    /\ UNCHANGED <<recentTelemetry, env, calls, live, nextSock, toServer, sim, loops, hist>>

\* socket.on('change-drone-status')
SrvChangeDroneStatus(d, m, status) ==
    /\ CmdLeft
    /\ cmds' = cmds + 1
    /\ lastOp' = Op("change-drone-status", d, m, status)
    /\ IF connectedDrones[d].status = "absent"
       THEN /\ emitted' = <<>>
            /\ UNCHANGED <<connectedDrones, toDrone>>
       ELSE /\ connectedDrones' = [connectedDrones EXCEPT ![d] =
                   [@ EXCEPT !.status = status,
                             !.missionId = IF status = "busy" THEN m ELSE None]]
            /\ toDrone' = Deliver(toDrone, d, live[d] # 0,
                                  ChangeStatusMsg(m, TRUE, recentTelemetry[m], status, "dashboard"))
            /\ emitted' = <<Emit("dashboard", "available-drones", None, 0),
                            Emit(d, "change-drone-status", m, Len(recentTelemetry[m]))>>
    /\ UNCHANGED <<mapOrder, closing>>
    /\ UNCHANGED <<recentTelemetry, missionStatus, env, calls, live, nextSock, toServer,
                   sim, loops, hist>>

\* The constructor's field values; proc tells whether the process is running.
FreshSim(running) ==
    [proc |-> running, mission |-> None, isPaused |-> TRUE, battery |-> FullBattery,
     altitude |-> 0, currentWaypointIndex |-> 0, currentStep |-> 0,
     totalDistance |-> 0, distanceTraveled |-> 0]

\* The body of io.on('connection') for a drone socket, with the simulator
\* process starting when the drone is the simulator.
Connect(d) ==
    /\ nextSock < MaxConnects
    /\ nextSock' = nextSock + 1
    /\ live' = [live EXCEPT ![d] = nextSock + 1]
    /\ LET existing == connectedDrones[d]
           bound == existing.missionId # None
           info == DroneInfo(d, nextSock + 1, existing.missionId, None,
                             IF bound THEN "busy" ELSE "idle")
       IN  /\ connectedDrones' = [connectedDrones EXCEPT ![d] = info]
           /\ mapOrder' = IF existing.status = "absent" THEN Append(mapOrder, d) ELSE mapOrder
           /\ lastOp' = Op("connection", d, existing.missionId, None)
           /\ IF bound
              THEN LET m == existing.missionId
                   IN  /\ toDrone' = Deliver(IF d = Sim THEN <<>> ELSE toDrone, d, TRUE,
                              ChangeStatusMsg(m, missionStatus[m] = "paused",
                                              recentTelemetry[m], "busy", "connection"))
                       /\ emitted' = <<Emit(d, "change-drone-status", m, Len(recentTelemetry[m])),
                                       Emit("dashboard", "available-drones", None, 0)>>
              ELSE /\ toDrone' = IF d = Sim THEN <<>> ELSE toDrone
                   /\ emitted' = <<Emit("dashboard", "available-drones", None, 0)>>
    /\ sim' = IF d = Sim THEN FreshSim(TRUE) ELSE sim
    /\ hist' = IF d = Sim THEN HistRestart(hist) ELSE hist
    /\ UNCHANGED <<recentTelemetry, missionStatus, env, calls, cmds>>

\* io.on('connection') for a drone that has no socket open
SrvConnection(d) ==
    /\ live[d] = 0
    /\ Connect(d)
    /\ UNCHANGED <<closing, toServer, loops>>

\* io.on('connection') for a drone whose process was restarted while the
\* server still holds its former socket open: the former process is gone with
\* what it had not sent, and the close of its socket is yet to reach the server.
SrvReconnection(d) ==
    /\ live[d] # 0
    /\ closing' = closing \cup {<<d, live[d]>>}
    /\ Connect(d)
    /\ IF d = Sim
       THEN loops' = <<>> /\ toServer' = <<>>
       ELSE UNCHANGED <<toServer, loops>>

\* C21's mutant: a call that threw or was refused leaves no scores
AiScoresUndefined(o) ==
    IF o \in {"down", "refused"} THEN {[infection |-> -1, weed |-> -1, yield |-> -1]}
    ELSE {[infection |-> 0, weed |-> 0, yield |-> 45],
          [infection |-> 100, weed |-> 30, yield |-> 60]}

\* The scores the handler is left with, yield in tenths: "down" is a call that
\* threw, "refused" a response that is not ok, and any other answer is a
\* response whose fields set the scores or, when falsy, leave the defaults.
AiScores(o) ==
    IF o \in {"down", "refused"} THEN {[infection |-> 0, weed |-> 0, yield |-> 45]}
    ELSE {[infection |-> 0, weed |-> 0, yield |-> 45],
          [infection |-> 100, weed |-> 30, yield |-> 60]}

\* socket.on("telemetry"), on the message at the head of the simulator's socket
SrvTelemetry ==
    /\ toServer # <<>>
    /\ Head(toServer).ev = "telemetry"
    /\ \E o \in env.ai : \E sc \in AiScores(o) : \E ins \in env.store :
         LET raw == Head(toServer).data
             m == raw.mission_id
             data == [raw EXCEPT !.infection_score = sc.infection,
                                 !.weed_score = sc.weed,
                                 !.yield_score = sc.yield]
             last == Append(recentTelemetry[m], data)
             flush == Len(last) >= BatchSize
         IN  /\ recentTelemetry' = [recentTelemetry EXCEPT ![m] = IF flush THEN <<>> ELSE last]
             /\ emitted' = (IF flush THEN <<Emit("store", ins, m, Len(last))>> ELSE <<>>)
                           \o <<Emit("dashboard", "telemetry", m, 0)>>
             /\ lastOp' = Op("telemetry", Sim, m, None)
             /\ hist' = [HistReport(hist, data) EXCEPT !.ai = o]
    /\ toServer' = Tail(toServer)
    /\ UNCHANGED <<mapOrder, closing>>
    /\ UNCHANGED <<connectedDrones, missionStatus, env, calls, live, nextSock, toDrone,
                   sim, loops, cmds>>

\* ---- socket.on("telemetry") step by step: the handler suspends at the scoring
\* call and at the store's insert, and other handlers run meanwhile.
\* A suspended call: pc "fetch" awaits the scoring service, pc "insert" the
\* store; data is its report, batch the rows its insert carries; n and nums
\* are history, the numbers of the report and of the rows in the order of
\* arrival.
Call(pc, data, batch, n, nums) ==
    [pc |-> pc, data |-> data, batch |-> batch, n |-> n, nums |-> nums]

RemoveAt(q, k) == SubSeq(q, 1, k - 1) \o SubSeq(q, k + 1, Len(q))

\* The handler from its start to its await of the scoring service
SrvTelemetryRecv ==
    /\ toServer # <<>>
    /\ Head(toServer).ev = "telemetry"
    /\ Len(calls) < MaxCalls
    /\ calls' = Append(calls, Call("fetch", Head(toServer).data, <<>>, hist.nrx + 1, <<>>))
    /\ hist' = [hist EXCEPT !.nrx = @ + 1]
    /\ toServer' = Tail(toServer)
    /\ lastOp' = Op("telemetry-received", Sim, Head(toServer).data.mission_id, None)
    /\ emitted' = <<>>
    /\ UNCHANGED <<mapOrder, closing>>
    /\ UNCHANGED <<connectedDrones, recentTelemetry, missionStatus, env, live, nextSock,
                   toDrone, sim, loops, cmds>>

\* Call k from the scoring service's answer to its end, or to its await of the
\* insert.  The push is on the array the Map holds, so the Map shows it at once.
SrvTelemetryScored(k) ==
    /\ k \in 1..Len(calls)
    /\ calls[k].pc = "fetch"
    /\ \E o \in env.ai : \E sc \in AiScores(o) :
         LET c == calls[k]
             m == c.data.mission_id
             data == [c.data EXCEPT !.infection_score = sc.infection,
                                    !.weed_score = sc.weed,
                                    !.yield_score = sc.yield]
             last == Append(recentTelemetry[m], data)
             nums == Append(hist.order[m], c.n)
             flush == Len(last) >= BatchSize
             h1 == [HistReport(hist, data) EXCEPT !.ai = o,
                                                  !.order[m] = nums,
                                                  !.pushed = c.n,
                                                  !.pushedMax = Max(@, c.n)]
         IN  /\ recentTelemetry' = [recentTelemetry EXCEPT ![m] = last]
             /\ IF flush
                THEN /\ calls' = [calls EXCEPT ![k] = Call("insert", data, last, c.n, nums)]
                     /\ emitted' = <<Emit("store", "insert", m, Len(last))>>
                     /\ hist' = [h1 EXCEPT
                                    !.batch = nums,
                                    !.issued = IF hist.batch = <<>> THEN @
                                               ELSE Max(@, Last(hist.batch))]
                ELSE /\ calls' = RemoveAt(calls, k)
                     /\ emitted' = <<Emit("dashboard", "telemetry", m, 0)>>
                     /\ hist' = [h1 EXCEPT !.cast = c.n, !.castMax = Max(@, c.n)]
             /\ lastOp' = Op("telemetry-scored", Sim, m, IF flush THEN "flush" ELSE None)
    /\ UNCHANGED <<mapOrder, closing>>
    /\ UNCHANGED <<connectedDrones, missionStatus, env, live, nextSock, toDrone, toServer,
                   sim, loops, cmds>>

\* Call k from the store's answer to its end
SrvTelemetryInserted(k) ==
    /\ k \in 1..Len(calls)
    /\ calls[k].pc = "insert"
    /\ \E ins \in env.store :
         LET c == calls[k]
             m == c.data.mission_id
         IN  /\ recentTelemetry' = [recentTelemetry EXCEPT ![m] = <<>>]
             /\ calls' = RemoveAt(calls, k)
             /\ emitted' = <<Emit("store", ins, m, Len(c.batch)),
                             Emit("dashboard", "telemetry", m, 0)>>
             /\ hist' = [hist EXCEPT
                            !.order[m] = <<>>,
                            !.cast = c.n,
                            !.castMax = Max(@, c.n),
                            !.durable = IF ins = "ok"
                                        THEN @ \cup {c.nums[j] : j \in 1..Len(c.nums)}
                                        ELSE @]
             /\ lastOp' = Op("telemetry-inserted", Sim, m, ins)
    /\ UNCHANGED <<mapOrder, closing>>
    /\ UNCHANGED <<connectedDrones, missionStatus, env, live, nextSock, toDrone, toServer,
                   sim, loops, cmds>>

\* socket.on("mission-complete")
SrvMissionComplete ==
    /\ toServer # <<>>
    /\ Head(toServer).ev = "mission-complete"
    /\ LET m == Head(toServer).data.mission_id
           drone == connectedDrones[Sim]
       IN  /\ lastOp' = Op("mission-complete", Sim, m, None)
           /\ IF drone.status = "absent"
              THEN UNCHANGED <<connectedDrones, missionStatus>> /\ emitted' = <<>>
              ELSE /\ connectedDrones' = [connectedDrones EXCEPT ![Sim] =
                          [drone EXCEPT !.status = "idle", !.missionId = None]]
                   /\ missionStatus' = [missionStatus EXCEPT ![m] = "completed"]
                   /\ emitted' = <<Emit("dashboard", "available-drones", None, 0),
                                   Emit("store", "completed", m, 0)>>
    /\ toServer' = Tail(toServer)
    /\ UNCHANGED <<mapOrder, closing>>
    /\ UNCHANGED <<recentTelemetry, env, calls, live, nextSock, toDrone, sim, loops, cmds, hist>>

\* C12's mutant: the entry marked disconnected and unbound
MarkDisconnectedUnbound(drone) ==
    [drone EXCEPT !.status = "disconnected", !.missionId = None]

\* { ...drone, status: 'disconnected' }
MarkDisconnected(drone) == [drone EXCEPT !.status = "disconnected"]

\* C33's mutant: the lookup by the droneId of the handler's connection
SocketOwnersByAppId(d, s) == {x \in Drones : connectedDrones[x].status # "absent" /\ x = d}

\* [...connectedDrones.values()].find(d => d.socketId === socket.id), for the
\* socket s of drone d
SocketOwners(d, s) ==
    {x \in Drones : connectedDrones[x].status # "absent" /\ connectedDrones[x].socketId = s}

\* socket.on('disconnect') for a socket the drone left before it connected
\* again: the close reaches the server after the new connection.
SrvLateDisconnect(d, s) ==
    /\ <<d, s>> \in closing
    /\ closing' = closing \ {<<d, s>>}
    /\ connectedDrones' = [x \in Drones |->
           IF x \in SocketOwners(d, s) THEN MarkDisconnected(connectedDrones[x])
           ELSE connectedDrones[x]]
    /\ emitted' = IF SocketOwners(d, s) = {} THEN <<>>
                  ELSE <<Emit("dashboard", "available-drones", None, 0)>>
    /\ lastOp' = Op("disconnect", d, None, "late")
    /\ UNCHANGED <<mapOrder, recentTelemetry, missionStatus, env, live, nextSock, toDrone,
                   toServer, calls, sim, loops, cmds, hist>>

\* The socket closes: socket.on('disconnect') at the server, and the simulator's
\* own "disconnect" handler, which exits the process.  Messages still in flight
\* on the socket are lost with it.
SrvDisconnect(d) ==
    /\ live[d] # 0
    /\ live' = [live EXCEPT ![d] = 0]
    /\ LET owner == {x \in Drones : connectedDrones[x].status # "absent"
                                    /\ connectedDrones[x].socketId = live[d]}
       IN  /\ connectedDrones' = [x \in Drones |->
                  IF x \in owner THEN MarkDisconnected(connectedDrones[x])
                  ELSE connectedDrones[x]]
           /\ emitted' = IF owner = {} THEN <<>>
                         ELSE <<Emit("dashboard", "available-drones", None, 0)>>
    /\ lastOp' = Op("disconnect", d, None, None)
    /\ IF d = Sim
       THEN /\ sim' = FreshSim(FALSE)
            /\ loops' = <<>>
            /\ toDrone' = <<>>
            /\ toServer' = <<>>
       ELSE UNCHANGED <<sim, loops, toDrone, toServer>>
    /\ UNCHANGED <<mapOrder, closing>>
    /\ UNCHANGED <<recentTelemetry, missionStatus, env, calls, nextSock, cmds, hist>>

\* ------------------------------------------------------------- the simulator
\* A suspended call: pc "ramp" sleeps in rampUpAltitude, pc "trav" sleeps at
\* the end of the step loop's body; m is the mission whose pathline and target
\* altitude the call took when it began, i and step its loop variables.
Loop(pc, m, i, step) == [pc |-> pc, m |-> m, i |-> i, step |-> step]

\* What running a call up to its next sleep (or its return) does: the new
\* fields, the messages emitted, whether the call is still suspended and where,
\* whether it threw, which kind of report it emitted, and the distance
\* travelled that report stands for.
Ran(s, out, alive, loop, threw, tick, dist) ==
    [sim |-> s, out |-> out, alive |-> alive, loop |-> loop, threw |-> threw,
     tick |-> tick, dist |-> dist]

resetProgress(s) ==
    [s EXCEPT !.currentWaypointIndex = 0, !.currentStep = 0, !.altitude = 0,
              !.distanceTraveled = 0, !.totalDistance = 0]

computeTotalDistance(s) ==
    [s EXCEPT !.totalDistance = PrefixSum(Path(s.mission), Len(Path(s.mission)))]

\* parseFloat(((d / total) * 100).toFixed(2)), in hundredths of a percent
PercentOf(d, total) == RoundDiv(d * 10000, total)

\* Math.min(100, (distanceTraveled / totalDistance) * 100): NaN for 0 / 0,
\* Infinity (so 100) for a positive distance over 0.
ProgressPercent(d, total) ==
    IF total = 0 THEN (IF d = 0 THEN NaN ELSE 10000)
    ELSE Min(10000, PercentOf(d, total))

\* progressPercent >= 100, on the unrounded value
ReachedEnd(d, total) == IF total = 0 THEN d > 0 ELSE d >= total

\* The end of resumeMission, after the segment loop
Finish(s, l) ==
    IF s.mission = None
    THEN Ran(s, <<>>, FALSE, l, TRUE, "none", 0)
    ELSE Ran(resetProgress(s), <<CompleteMsg(s.mission)>>, FALSE, l, FALSE, "none", 0)

\* The body of the step loop at (i, step) past its pause check; fb and fa are
\* the random draws.
StepEmit(s, l, i, step, fb, fa) ==
    LET path == Path(l.m)
        A == path[i + 1]
        B == path[i + 2]
        segmentDistance == haversineDistance(A[1], A[2], B[1], B[2])
        dist == s.distanceTraveled + segmentDistance \div stepsPerSegment
        battery == Max(0, s.battery - BatteryDrain + fb)
        telemetry == Report(s.mission,
                            lerp(A[1], B[1], step, stepsPerSegment),
                            lerp(A[2], B[2], step, stepsPerSegment),
                            s.altitude + fa,
                            RoundDiv(battery, 100),
                            ProgressPercent(dist, s.totalDistance))
        s1 == [s EXCEPT !.distanceTraveled = dist, !.battery = battery]
        here == Loop("trav", l.m, i, step)
    IN  IF ReachedEnd(dist, s.totalDistance)
        THEN Ran(resetProgress(s1),
                 <<TelemetryMsg(telemetry), CompleteMsg(s.mission)>>,
                 FALSE, here, FALSE, "trav", dist)
        ELSE Ran(s1, <<TelemetryMsg(telemetry)>>, TRUE, here, FALSE, "trav", dist)

\* C8's mutant: the body without its pause check
StepBodyUnchecked(s, l, i, step, fb, fa) == StepEmit(s, l, i, step, fb, fa)

\* The body of the step loop at (i, step)
StepBody(s, l, i, step, fb, fa) ==
    IF s.isPaused
    THEN Ran([s EXCEPT !.currentWaypointIndex = i, !.currentStep = step],
             <<>>, FALSE, l, FALSE, "none", 0)
    ELSE StepEmit(s, l, i, step, fb, fa)

\* The segment loop from its first iteration: i starts at currentWaypointIndex
\* and the step at currentStep.
EnterSegments(s, l, fb, fa) ==
    IF s.currentWaypointIndex < Len(Path(l.m)) - 1
    THEN StepBody(s, l, s.currentWaypointIndex, s.currentStep, fb, fa)
    ELSE Finish(s, l)

\* A call waking from the sleep at the end of the body at (l.i, l.step)
WakeStep(s, l, fb, fa) ==
    IF l.step + 1 <= stepsPerSegment
    THEN StepBody(s, l, l.i, l.step + 1, fb, fa)
    ELSE LET s1 == [s EXCEPT !.currentStep = 0]
             i == l.i + 1
             startStep == IF i = s1.currentWaypointIndex THEN s1.currentStep ELSE 0
         IN  IF i < Len(Path(l.m)) - 1
             THEN StepBody(s1, l, i, startStep, fb, fa)
             ELSE Finish(s1, l)

\* rampUpAltitude from the top of its while loop, and what follows its return
RampIter(s, l, fb, fa) ==
    LET target == TargetAltitude(l.m)
        here == Loop("ramp", l.m, 0, 0)
    IN  IF s.altitude < target
        THEN IF s.isPaused
             THEN Ran(s, <<>>, TRUE, here, FALSE, "none", 0)
             ELSE LET alt == Min(target, s.altitude + RampStep)
                  IN  Ran([s EXCEPT !.altitude = alt],
                          <<TelemetryMsg(Report(s.mission, 0, 0, alt,
                                                RoundDiv(s.battery, 100), 0))>>,
                          TRUE, here, FALSE, "ramp", 0)
        ELSE EnterSegments(s, l, fb, fa)

\* resumeMission up to its first sleep
resumeMission(s, fb, fa) ==
    LET l == Loop("new", s.mission, 0, 0)
    IN  IF s.mission = None THEN Ran(s, <<>>, FALSE, l, FALSE, "none", 0)
        ELSE IF s.currentWaypointIndex = 0 /\ s.currentStep = 0
        THEN RampIter(s, l, fb, fa)
        ELSE EnterSegments(s, l, fb, fa)

\* ------------------------------------------------------- simulator handlers
\* The state after a call ran: k is its place in loops, 0 for a new call.
Settle(r, k) ==
    /\ sim' = r.sim
    /\ toServer' = toServer \o r.out
    /\ loops' = IF k = 0
                THEN (IF r.alive THEN Append(loops, r.loop) ELSE loops)
                ELSE IF r.alive THEN [loops EXCEPT ![k] = r.loop]
                ELSE SubSeq(loops, 1, k - 1) \o SubSeq(loops, k + 1, Len(loops))

\* this.socket.on("change-drone-status")
DroneChangeStatus ==
    /\ sim.proc /\ toDrone # <<>>
    /\ Head(toDrone).ev = "change-drone-status"
    /\ toDrone' = Tail(toDrone)
    /\ LET msg == Head(toDrone)
           m == msg.mission
           recent == msg.recentTelemetry
       IN  /\ lastOp' = Op("drone-change-status", Sim, m,
                            IF msg.origin = "connection" THEN "resync" ELSE msg.status)
           /\ IF msg.status = "busy"
              THEN LET s0 == computeTotalDistance(resetProgress([sim EXCEPT !.mission = m]))
                       path == Path(m)
                       last == Last(recent)
                       closest == findClosestPointOnPath(path, last.latitude, last.longitude)
                       s1 == IF recent # <<>>
                             THEN [s0 EXCEPT
                                     !.altitude = last.altitude_meters,
                                     !.battery = last.battery_percent * 100,
                                     !.currentWaypointIndex =
                                         Max(0, Min(closest.segmentIndex, Len(path) - 2)),
                                     !.currentStep =
                                         RoundDiv(closest.tn * stepsPerSegment, closest.td),
                                     !.distanceTraveled = closest.distanceTraveled]
                             ELSE [s0 EXCEPT !.altitude = 0, !.battery = FullBattery]
                       restored == IF s1.totalDistance > 0
                                   THEN PercentOf(s1.distanceTraveled, s1.totalDistance)
                                   ELSE 0
                       snap == IF recent # <<>>
                               THEN <<TelemetryMsg(Report(m, last.latitude, last.longitude,
                                                          s1.altitude,
                                                          RoundDiv(s1.battery, 100), restored))>>
                               ELSE <<>>
                       h0 == IF sim.mission = None /\ recent = <<>> /\ msg.origin = "dashboard"
                             THEN HistRun(hist)
                             ELSE [hist EXCEPT !.disturbed = TRUE, !.phase = "none",
                                               !.again = FALSE, !.cached = recent # <<>>]
                   IN  IF msg.isPaused
                       THEN /\ sim' = s1
                            /\ toServer' = toServer \o snap
                            /\ hist' = h0
                            /\ UNCHANGED loops
                       ELSE /\ Len(loops) < MaxLoops
                            /\ \E fb \in env.batFluct : \E fa \in env.altFluct :
                                 LET r == resumeMission([s1 EXCEPT !.isPaused = FALSE], fb, fa)
                                 IN  /\ Settle([r EXCEPT !.out = snap \o r.out], 0)
                                     /\ hist' = HistRan([h0 EXCEPT !.starts = Min(2, @ + 1)], r)
              ELSE /\ sim' = [sim EXCEPT !.mission = None, !.isPaused = TRUE]
                   /\ hist' = [hist EXCEPT !.disturbed = TRUE, !.phase = "none", !.again = FALSE]
                   /\ UNCHANGED <<toServer, loops>>
    /\ emitted' = <<>>
    /\ UNCHANGED <<mapOrder, closing>>
    /\ UNCHANGED <<connectedDrones, recentTelemetry, missionStatus, env, calls, live, nextSock, cmds>>

\* C20's mutant: a pause that meets a paused simulator counts as a start
PauseFlagToggled(action) == action # "start" /\ ~sim.isPaused

\* this.isPaused = action !== "start"
PauseFlag(action) == action # "start"

\* this.socket.on("mission-control")
DroneMissionControl ==
    /\ sim.proc /\ toDrone # <<>>
    /\ Head(toDrone).ev = "mission-control"
    /\ toDrone' = Tail(toDrone)
    /\ LET a == Head(toDrone).action
       IN  /\ lastOp' = Op("drone-mission-control", Sim, sim.mission, a)
           /\ IF sim.mission = None
              THEN UNCHANGED <<sim, toServer, loops, hist>>
              ELSE IF PauseFlag(a)
              THEN /\ sim' = [sim EXCEPT !.isPaused = TRUE]
                   /\ hist' = [hist EXCEPT
                          !.again = sim.isPaused /\ a = "pause",
                          !.disturbed = TRUE,
                          !.stopped = TRUE,
                          !.phase = IF ~sim.isPaused /\ hist.lastTick # NoTick /\ a = "pause"
                                    THEN "paused"
                                    ELSE IF sim.isPaused /\ a = "pause" THEN @ ELSE "none",
                          !.before = IF ~sim.isPaused THEN hist.lastTick ELSE @]
                   /\ UNCHANGED <<toServer, loops>>
              ELSE /\ Len(loops) < MaxLoops
                   /\ \E fb \in env.batFluct : \E fa \in env.altFluct :
                        LET r == resumeMission([sim EXCEPT !.isPaused = FALSE], fb, fa)
                            h0 == [hist EXCEPT
                                     !.starts = Min(2, @ + 1),
                                     !.again = FALSE,
                                     !.stopped = FALSE,
                                     !.phase = IF @ = "paused" THEN "armed" ELSE "none"]
                        IN  /\ Settle(r, 0)
                            /\ hist' = HistRan(h0, r)
    /\ emitted' = <<>>
    /\ UNCHANGED <<mapOrder, closing>>
    /\ UNCHANGED <<connectedDrones, recentTelemetry, missionStatus, env, calls, live, nextSock, cmds>>

\* A suspended call wakes from its sleep and runs to its next sleep or its end.
LoopWake(k) ==
    /\ sim.proc
    /\ k \in 1..Len(loops)
    /\ Len(toServer) < MaxQueue
    /\ \E fb \in env.batFluct : \E fa \in env.altFluct :
         LET l == loops[k]
             r == IF l.pc = "ramp" THEN RampIter(sim, l, fb, fa) ELSE WakeStep(sim, l, fb, fa)
         IN  /\ Settle(r, k)
             /\ hist' = HistRan(hist, r)
             /\ lastOp' = Op(IF r.threw THEN "threw" ELSE "tick", Sim, sim.mission, r.tick)
    /\ emitted' = <<>>
    /\ UNCHANGED <<mapOrder, closing>>
    /\ UNCHANGED <<connectedDrones, recentTelemetry, missionStatus, env, calls, live, nextSock,
                   toDrone, cmds>>

\* ------------------------------------------------------------ specification
\* The missions table: m1 is a route of one segment, flown at altitude alt;
\* m2 is a single point.
Route1 == <<<<0, 0>>, <<0, 15>>>>
Table(alt) ==
    [m \in Missions |->
        IF m = "m1"
        THEN [pathline |-> Route1, altitude_meters |-> alt]
        ELSE [pathline |-> <<<<0, 0>>>>, altitude_meters |-> 5]]

\* What surrounds the programs in a run: the missions table, the answers of the
\* scoring service and of the store, the draws of randomFluctuation (in the
\* units of the field they disturb) and the number of dashboard messages.
Env(table, budget) ==
    [table |-> table, ai |-> {"down"}, store |-> {"ok", "error"},
     batFluct |-> {0}, altFluct |-> {0}, maxCmds |-> budget]

\* The state after construction: no drone has connected yet.
Init ==
    /\ mapOrder = <<>>
    /\ closing = {}
    /\ connectedDrones = [d \in Drones |-> NoEntry(d)]
    /\ recentTelemetry = [m \in Missions |-> <<>>]
    /\ missionStatus = [m \in Missions |-> "planned"]
    /\ env = Env(Table(30), MaxCmds)
    /\ live = [d \in Drones |-> 0]
    /\ nextSock = 0
    /\ toDrone = <<>>
    /\ toServer = <<>>
    /\ calls = <<>>
    /\ sim = FreshSim(FALSE)
    /\ loops = <<>>
    /\ cmds = 0
    /\ lastOp = Op("init", None, None, None)
    /\ emitted = <<>>
    /\ hist = HistInit

\* The state after the simulator connected and the dashboard assigned it m1
\* (SrvConnection, SrvChangeDroneStatus, DroneChangeStatus from Init).
InitAssigned(e) ==
    /\ mapOrder = <<Sim>>
    /\ closing = {}
    /\ connectedDrones = [d \in Drones |->
           IF d = Sim THEN DroneInfo(Sim, 1, "m1", None, "busy") ELSE NoEntry(d)]
    /\ recentTelemetry = [m \in Missions |-> <<>>]
    /\ missionStatus = [m \in Missions |-> "planned"]
    /\ env = e
    /\ live = [d \in Drones |-> IF d = Sim THEN 1 ELSE 0]
    /\ nextSock = 1
    /\ toDrone = <<>>
    /\ toServer = <<>>
    /\ calls = <<>>
    /\ sim = [FreshSim(TRUE) EXCEPT
                !.mission = "m1",
                !.totalDistance = PrefixSum(e.table["m1"].pathline,
                                            Len(e.table["m1"].pathline))]
    /\ loops = <<>>
    /\ cmds = 0
    /\ lastOp = Op("drone-change-status", Sim, "m1", "busy")
    /\ emitted = <<>>
    /\ hist = HistInit

InitRun == InitAssigned(Env(Table(10), MaxRunCmds))

Next ==
    \/ \E d \in Drones : SrvConnection(d)
    \/ \E d \in Drones : SrvDisconnect(d)
    \/ \E m \in Missions : \E a \in Actions : SrvMissionControl(m, a)
    \/ \E d \in Drones : \E m \in Missions : \E st \in {"idle", "busy"} :
          SrvChangeDroneStatus(d, m, st)
    \/ SrvTelemetry
    \/ SrvMissionComplete
    \/ DroneChangeStatus
    \/ DroneMissionControl
    \/ \E k \in 1..MaxLoops : LoopWake(k)

Spec == Init /\ [][Next]_vars

\* A Run under the dashboard's control commands, from its assignment on.
NextRun ==
    \/ \E a \in Actions : SrvMissionControl("m1", a)
    \/ SrvTelemetry
    \/ SrvMissionComplete
    \/ DroneMissionControl
    \/ \E k \in 1..MaxLoops : LoopWake(k)

SpecRun == InitRun /\ [][NextRun]_vars

\* ---- the report buffer, from a Run in flight
\* The call r (a Ran record) and the history h after n more wake-ups with no
\* handler in between; the reports emitted accumulate in r.out.
FlyStep(r, h) ==
    CHOOSE res \in
        {[ran |-> [nx EXCEPT !.out = r.out \o nx.out], hist |-> HistRan(h, nx)] :
           nx \in {IF r.loop.pc = "ramp" THEN RampIter(r.sim, r.loop, 0, 0)
                   ELSE WakeStep(r.sim, r.loop, 0, 0)}} : TRUE

RECURSIVE Fly(_, _, _)
Fly(r, h, n) ==
    IF n = 0 \/ ~r.alive THEN [ran |-> r, hist |-> h]
    ELSE CHOOSE f \in {Fly(x.ran, x.hist, n - 1) : x \in {FlyStep(r, h)}} : TRUE

\* The reports of a Run the server holds before the first flush
Preflown == BatchSize - 2

\* The table of Table(alt) with route as m1's pathline
TableWith(route, alt) == [Table(alt) EXCEPT !["m1"].pathline = route]

\* The reports of the messages out as the server holds them after it handled
\* each with the scoring service down
Held(out) ==
    LET sc == CHOOSE x \in AiScores("down") : TRUE
        tel == SelectSeq(out, LAMBDA msg : msg.ev = "telemetry")
    IN  [k \in 1..Len(tel) |->
           [tel[k].data EXCEPT !.infection_score = sc.infection,
                               !.weed_score = sc.weed,
                               !.yield_score = sc.yield]]

FlownWith(f, held) ==
    CHOOSE res \in
        {[ran |-> f.ran, rx |-> rx,
          hist |-> [f.hist EXCEPT
                      !.lastRx["m1"] = Last(rx),
                      !.ai = "down",
                      !.travRx["m1"] = \E k \in 1..Len(rx) : rx[k].progress > 0]] :
           rx \in {held}} : TRUE

\* With env set: the simulator was assigned m1 and started, sent n reports
\* (fewer if the Run ended before), and the server handled each before the
\* next arrived.  ran is the call, hist the history, rx the reports as the
\* server holds them.
Flown(n) ==
    LET s0 == [FreshSim(TRUE) EXCEPT
                 !.mission = "m1",
                 !.isPaused = FALSE,
                 !.totalDistance = PrefixSum(Path("m1"), Len(Path("m1")))]
        h0 == [HistInit EXCEPT !.starts = 1]
    IN  CHOOSE res \in
            {FlownWith(f, Held(f.ran.out)) :
               f \in {Fly(r0, HistRan(h0, r0), n - 1) :
                        r0 \in {resumeMission(s0, 0, 0)}}} : TRUE

\* The state Flown(n) of a Run of m1 in the surroundings e.  The server's list
\* holds the reports received since the last flush, and the store accepted
\* the inserts.
InitFlownIn(e, n) ==
    /\ env = e
    /\ LET f == CHOOSE x \in {Flown(n)} : TRUE
           flushed == BatchSize * (Len(f.rx) \div BatchSize)
           kept == SubSeq(f.rx, flushed + 1, Len(f.rx))
           nums == [k \in 1..Len(kept) |-> flushed + k]
       IN  /\ sim = f.ran.sim
           /\ loops = <<f.ran.loop>>
           /\ recentTelemetry = [m \in Missions |-> IF m = "m1" THEN kept ELSE <<>>]
           /\ hist = [f.hist EXCEPT !.nrx = Len(f.rx), !.order["m1"] = nums,
                                    !.pushed = Len(f.rx), !.pushedMax = Len(f.rx),
                                    !.cast = Len(f.rx), !.castMax = Len(f.rx),
                                    !.batch = [k \in 1..Min(flushed, BatchSize) |->
                                                 flushed - BatchSize + k],
                                    !.issued = Max(0, flushed - BatchSize),
                                    !.durable = 1..flushed]
    /\ mapOrder = <<Sim>>
    /\ closing = {}
    /\ connectedDrones = [d \in Drones |->
           IF d = Sim THEN DroneInfo(Sim, 1, "m1", "false", "busy") ELSE NoEntry(d)]
    /\ missionStatus = [m \in Missions |-> IF m = "m1" THEN "running" ELSE "planned"]
    /\ live = [d \in Drones |-> IF d = Sim THEN 1 ELSE 0]
    /\ nextSock = 1
    /\ toDrone = <<>>
    /\ toServer = <<>>
    /\ calls = <<>>
    /\ cmds = 1
    /\ lastOp = Op("telemetry", Sim, "m1", None)
    /\ emitted = <<Emit("dashboard", "telemetry", "m1", 0)>>

\* The state Flown(n) of a Run of m1 on Route1 at altitude alt
InitFlown(n, alt) == InitFlownIn(Env(Table(alt), 1), n)

InitBuf == InitFlown(Preflown, 30)

NextBuf ==
    \/ SrvTelemetryRecv
    \/ \E k \in 1..MaxCalls : SrvTelemetryScored(k)
    \/ \E k \in 1..MaxCalls : SrvTelemetryInserted(k)
    \/ SrvMissionComplete
    \/ \E k \in 1..MaxLoops : LoopWake(k)

SpecBuf == InitBuf /\ [][NextBuf]_vars

\* Handlers that can run do run, and timers fire.
FairBuf ==
    /\ WF_vars(SrvTelemetryRecv)
    /\ WF_vars(\E k \in 1..MaxCalls : SrvTelemetryScored(k))
    /\ WF_vars(\E k \in 1..MaxCalls : SrvTelemetryInserted(k))
    /\ WF_vars(SrvMissionComplete)
    /\ WF_vars(\E k \in 1..MaxLoops : LoopWake(k))

SpecBufLive == SpecBuf /\ FairBuf

\* ---- a drone that loses its socket in a Run and connects again
\* The Run is near its end: three reports are still to come.
InitLink == InitFlown(stepsPerSegment - 1, 10)

NextLink ==
    \/ SrvTelemetryRecv
    \/ \E k \in 1..MaxCalls : SrvTelemetryScored(k)
    \/ SrvMissionComplete
    \/ \E k \in 1..MaxLoops : LoopWake(k)
    \/ \E d \in Drones : SrvDisconnect(d)
    \/ \E d \in Drones : SrvConnection(d)
    \/ DroneChangeStatus

SpecLink == InitLink /\ [][NextLink]_vars

\* ---- resync, from every report of a Run
Routes ==
    {Route1,
     <<<<0, 0>>, <<0, 15>>, <<0, 30>>>>,
     <<<<0, 0>>, <<0, 15>>, <<15, 15>>>>}

\* The state Flown(n) of a Run of m1 on route, after the socket closed and the
\* drone connected again: the server has pushed the payload, and a new
\* simulator process is about to handle it.  The server's list holds the
\* reports received since the last flush; hist.before is the step of the last
\* of them, when it is a traversing report.
InitRelinkedIn(e, n) ==
    /\ env = e
    /\ LET f == CHOOSE x \in {Flown(n)} : TRUE
           kept == SubSeq(f.rx, BatchSize * (Len(f.rx) \div BatchSize) + 1, Len(f.rx))
       IN  /\ recentTelemetry = [m \in Missions |-> IF m = "m1" THEN kept ELSE <<>>]
           /\ toDrone = <<ChangeStatusMsg("m1", FALSE, kept, "busy", "connection")>>
           /\ hist = [HistRestart(f.hist) EXCEPT
                        !.before = IF kept # <<>> /\ f.ran.alive THEN f.hist.lastTick
                                   ELSE NoTick]
           /\ emitted = <<Emit(Sim, "change-drone-status", "m1", Len(kept)),
                          Emit("dashboard", "available-drones", None, 0)>>
    /\ sim = FreshSim(TRUE)
    /\ loops = <<>>
    /\ mapOrder = <<Sim>>
    /\ closing = {}
    /\ connectedDrones = [d \in Drones |->
           IF d = Sim THEN DroneInfo(Sim, MaxConnects, "m1", None, "busy") ELSE NoEntry(d)]
    /\ missionStatus = [m \in Missions |-> IF m = "m1" THEN "running" ELSE "planned"]
    /\ live = [d \in Drones |-> IF d = Sim THEN MaxConnects ELSE 0]
    /\ nextSock = MaxConnects
    /\ toServer = <<>>
    /\ calls = <<>>
    /\ cmds = 1
    /\ lastOp = Op("connection", Sim, "m1", None)

InitRelinked(route, n) == InitRelinkedIn(Env(TableWith(route, 5), 1), n)

InitResync == \E route \in Routes : \E n \in 1..MaxFlown : InitRelinked(route, n)

NextResync ==
    \/ DroneChangeStatus
    \/ \E k \in 1..MaxLoops : LoopWake(k)
    \/ SrvTelemetry
    \/ SrvMissionComplete

SpecResync == InitResync /\ [][NextResync]_vars

\* ---- a Run on a route of no length
\* m1's route is two points at one place.
InitZero == InitAssigned(Env(TableWith(<<<<0, 0>>, <<0, 0>>>>, 5), MaxCmds))

SpecZero == InitZero /\ [][NextRun]_vars

\* ---- the closest-point search, from a payload whose last report is anywhere
\* Routes of two points and more: one segment, two in line, a corner, a
\* diagonal, a route that turns back over itself, a closed square, and a
\* route whose first two points coincide.
ProbeRoutes ==
    {Route1,
     <<<<0, 0>>, <<0, 15>>, <<0, 30>>>>,
     <<<<0, 0>>, <<0, 15>>, <<15, 15>>>>,
     <<<<0, 0>>, <<15, 15>>, <<15, 0>>>>,
     <<<<0, 0>>, <<0, 15>>, <<0, 0>>>>,
     <<<<0, 0>>, <<15, 0>>, <<15, 15>>, <<0, 15>>, <<0, 0>>>>,
     <<<<0, 0>>, <<0, 0>>, <<0, 15>>>>}

Grid == {GridStep * x : x \in -1..MaxGrid}

\* The state after a drone bound to m1 connected again while the server's list
\* for m1 held one report, of position (lat, lon) and battery bat: the payload
\* is pushed, and a new simulator process is about to handle it.  The server
\* stores the position and the battery a drone sent, whatever they are.
InitProbeIn(e, lat, lon, bat) ==
    /\ env = e
    /\ LET r == Report("m1", lat, lon, 5, bat, 0)
           kept == Held(<<TelemetryMsg(r)>>)
       IN  /\ recentTelemetry = [m \in Missions |-> IF m = "m1" THEN kept ELSE <<>>]
           /\ toDrone = <<ChangeStatusMsg("m1", FALSE, kept, "busy", "connection")>>
           /\ hist = [HistInit EXCEPT !.lastRx["m1"] = kept[1], !.ai = "down"]
           /\ emitted = <<Emit(Sim, "change-drone-status", "m1", Len(kept)),
                          Emit("dashboard", "available-drones", None, 0)>>
    /\ sim = FreshSim(TRUE)
    /\ loops = <<>>
    /\ mapOrder = <<Sim>>
    /\ closing = {}
    /\ connectedDrones = [d \in Drones |->
           IF d = Sim THEN DroneInfo(Sim, MaxConnects, "m1", None, "busy") ELSE NoEntry(d)]
    /\ missionStatus = [m \in Missions |-> IF m = "m1" THEN "running" ELSE "planned"]
    /\ live = [d \in Drones |-> IF d = Sim THEN MaxConnects ELSE 0]
    /\ nextSock = MaxConnects
    /\ toServer = <<>>
    /\ calls = <<>>
    /\ cmds = 1
    /\ lastOp = Op("connection", Sim, "m1", None)

InitProbe(route, lat, lon) == InitProbeIn(Env(TableWith(route, 5), 1), lat, lon, 100)

InitClosest ==
    \E route \in ProbeRoutes : \E lat \in Grid : \E lon \in Grid : InitProbe(route, lat, lon)

SpecClosest == InitClosest /\ [][NextResync]_vars

\* ---- a drone in a Run that the dashboard assigns another Run
\* m1's route has two segments, m2's one.
TableTwo == [TableWith(<<<<0, 0>>, <<0, 15>>, <<0, 30>>>>, 5) EXCEPT
               !["m2"].pathline = Route1]

\* The Run of m1 is in its second segment, three reports from its end, and
\* the dashboard has commands left.
InitSwitch == InitFlownIn(Env(TableTwo, MaxRunCmds), 2 * stepsPerSegment - 2)

NextSwitch ==
    \/ \E d \in Drones : \E m \in Missions : \E st \in {"idle", "busy"} :
          SrvChangeDroneStatus(d, m, st)
    \/ SrvTelemetry
    \/ SrvMissionComplete
    \/ DroneChangeStatus
    \/ \E k \in 1..MaxLoops : LoopWake(k)

SpecSwitch == InitSwitch /\ [][NextSwitch]_vars

\* ---- the battery, with the draws of randomFluctuation
\* The draws at the two ends of the range and in its middle.
EnvBattery == [Env(Table(30), 1) EXCEPT !.batFluct = {-BatteryFluct, 0, BatteryFluct}]

\* A drone that connects again after any number of reports of its Run, or
\* with a cached report of an empty battery.
InitBattery ==
    \/ \E n \in 1..MaxFlown : InitRelinkedIn(EnvBattery, n)
    \/ InitProbeIn(EnvBattery, 0, 0, 0)

SpecBattery == InitBattery /\ [][NextResync]_vars

\* ---- a drone released in its ascent and assigned another Run
\* m1 is flown at the height of one ascending tick, m2 twice as high.
TableRamp == [Table(RampStep) EXCEPT !["m2"].altitude_meters = 2 * RampStep]

\* The Run of m1 was started and sent its first ascending report, which the
\* server handled; the dashboard then released the drone, and the simulator
\* has handled the release while its call sleeps in the ascent.  The
\* dashboard has two commands left.
InitRamp ==
    /\ env = Env(TableRamp, MaxRunCmds + 1)
    /\ LET f == CHOOSE x \in {Flown(1)} : TRUE
       IN  /\ sim = [f.ran.sim EXCEPT !.mission = None, !.isPaused = TRUE]
           /\ loops = <<f.ran.loop>>
           /\ recentTelemetry = [m \in Missions |-> IF m = "m1" THEN f.rx ELSE <<>>]
           /\ hist = [f.hist EXCEPT !.disturbed = TRUE, !.phase = "none", !.again = FALSE]
    /\ mapOrder = <<Sim>>
    /\ closing = {}
    /\ connectedDrones = [d \in Drones |->
           IF d = Sim THEN DroneInfo(Sim, 1, None, "false", "idle") ELSE NoEntry(d)]
    /\ missionStatus = [m \in Missions |-> IF m = "m1" THEN "running" ELSE "planned"]
    /\ live = [d \in Drones |-> IF d = Sim THEN 1 ELSE 0]
    /\ nextSock = 1
    /\ toDrone = <<>>
    /\ toServer = <<>>
    /\ calls = <<>>
    /\ cmds = 2
    /\ lastOp = Op("drone-change-status", Sim, "m1", "idle")
    /\ emitted = <<>>

NextRamp ==
    \/ \E d \in Drones : \E m \in Missions : \E st \in {"idle", "busy"} :
          SrvChangeDroneStatus(d, m, st)
    \/ \E m \in Missions : SrvMissionControl(m, "start")
    \/ SrvTelemetry
    \/ SrvMissionComplete
    \/ DroneChangeStatus
    \/ DroneMissionControl
    \/ \E k \in 1..MaxLoops : LoopWake(k)

SpecRamp == InitRamp /\ [][NextRamp]_vars

\* ---- a mission whose route has no point
TableEmpty == TableWith(<<>>, 2 * RampStep)

\* The mission is assigned to a connected drone; or the drone, which sent an
\* ascending report, lost its socket and has connected again.
InitEmpty ==
    \/ InitAssigned(Env(TableEmpty, MaxRunCmds))
    \/ InitProbeIn(Env(TableEmpty, MaxRunCmds), 0, 0, 100)

NextEmpty ==
    \/ \E a \in Actions : SrvMissionControl("m1", a)
    \/ SrvTelemetry
    \/ SrvMissionComplete
    \/ DroneChangeStatus
    \/ DroneMissionControl
    \/ \E k \in 1..MaxLoops : LoopWake(k)

SpecEmpty == InitEmpty /\ [][NextEmpty]_vars

\* ---- drones that connect again before the server saw their socket close
NextHandover ==
    \/ \E d \in Drones : SrvConnection(d)
    \/ \E d \in Drones : SrvReconnection(d)
    \/ \E d \in Drones : SrvDisconnect(d)
    \/ \E d \in Drones : \E s \in 1..MaxConnects : SrvLateDisconnect(d, s)
    \/ \E m \in Missions : \E a \in Actions : SrvMissionControl(m, a)
    \/ \E d \in Drones : \E m \in Missions : \E st \in {"idle", "busy"} :
          SrvChangeDroneStatus(d, m, st)
    \/ SrvTelemetry
    \/ SrvMissionComplete
    \/ DroneChangeStatus
    \/ DroneMissionControl
    \/ \E k \in 1..MaxLoops : LoopWake(k)

SpecHandover == Init /\ [][NextHandover]_vars

\* ---- resync from a report of the ascent
\* Routes that start at the origin of the grid and routes that do not.
AscentRoutes ==
    {Route1,
     <<<<0, 15>>, <<0, 0>>>>,
     <<<<15, 0>>, <<15, 15>>>>,
     <<<<15, 15>>, <<0, 15>>, <<0, 0>>>>}

\* The drone sent one or two reports of its ascent to 3 * RampStep, lost its
\* socket and has connected again.
InitAscent ==
    \E route \in AscentRoutes : \E n \in 1..2 :
        InitRelinkedIn(Env(TableWith(route, 3 * RampStep), 1), n)

SpecAscent == InitAscent /\ [][NextResync]_vars

\* ---- the scoring service answering, refusing and failing
\* As InitBuf, with a scoring service that may answer.
InitScore ==
    InitFlownIn([Env(Table(30), 1) EXCEPT !.ai = {"down", "refused", "up"}], Preflown)

SpecScore == InitScore /\ [][NextBuf]_vars

\* ------------------------------------------------------------------- claims
Present(d) == connectedDrones[d].status # "absent"

\* C1: when a drone whose Run is bound reconnects after the server received a
\* traversing report of that Run, the payload pushed to it ends with the last
\* report received, and the simulator's progress is restored, not reset to
\* segment 0, step 0, distance 0, battery 100.
C1_ReconnectRestoresProgress ==
    /\ (lastOp.op = "connection" /\ lastOp.mission # None /\ hist.travRx[lastOp.mission])
         => /\ toDrone # <<>>
            /\ Last(toDrone).recentTelemetry # <<>>
            /\ Last(Last(toDrone).recentTelemetry) = hist.lastRx[lastOp.mission]
    /\ (lastOp.op = "drone-change-status" /\ lastOp.arg = "resync"
        /\ hist.travRx[lastOp.mission])
         => ~(/\ sim.currentWaypointIndex = 0 /\ sim.currentStep = 0
              /\ sim.distanceTraveled = 0 /\ sim.battery = FullBattery)

\* The length of segment i of the simulator's route over stepsPerSegment.
Increment(i) ==
    LET path == Path("m1")
    IN  haversineDistance(path[i + 1][1], path[i + 1][2], path[i + 2][1], path[i + 2][2])
            \div stepsPerSegment

\* C2: when the last traversing report before a pause was at (i, s) with
\* s < stepsPerSegment, the first traversing report after the following start
\* is at (i, s + 1), one increment of distance further.
C2_PauseResumeExact ==
    (hist.phase = "seen" /\ hist.before.step < stepsPerSegment)
        => hist.after = Tick(hist.before.i, hist.before.step + 1,
                             hist.before.dist + Increment(hist.before.i))

\* C3: the simulator emits mission-complete at most once for a Run.
C3_CompletesAtMostOnce == \A m \in Missions : hist.completes[m] <= 1

\* C4: in a Run started once and never paused, aborted, cleared or resynced,
\* progress never decreases from one report to the next, and the report that
\* precedes the completion message carries progress 100.
C4_ProgressMonotoneTo100 ==
    (hist.starts = 1 /\ ~hist.disturbed)
        => /\ (hist.prevProg # NoProgress => hist.prevProg <= hist.lastProg)
           /\ (hist.done => hist.lastProg = 10000)

\* C5: at most one ascend or traverse loop of the simulator is active.
C5_OneTickLoop == Len(loops) <= 1

\* C6: after the simulator handled an abort it has no Run and no progress.
C6_AbortDiscardsProgress ==
    (lastOp.op = "drone-mission-control" /\ lastOp.arg = "abort")
        => /\ sim.mission = None
           /\ sim.currentWaypointIndex = 0 /\ sim.currentStep = 0
           /\ sim.distanceTraveled = 0

\* C7: after the server relayed an abort for a Run, or handled its completion
\* message, no directory entry is bound to that Run.
C7_AbortAndCompletionUnbind ==
    (\/ (lastOp.op = "mission-control" /\ lastOp.arg = "abort")
     \/ lastOp.op = "mission-complete")
        => \A d \in Drones : ~(Present(d) /\ connectedDrones[d].missionId = lastOp.mission)

\* C8: once the simulator handled a pause or an abort, no tick emits a status
\* report until it handles a start.
C8_NoTickWhileStopped ==
    (lastOp.op = "tick" /\ lastOp.arg \in {"ramp", "trav"}) => ~hist.stopped

\* A sleeping call woke after a pause or abort and emitted nothing.
C8_Witness ==
    /\ lastOp.op = "tick" /\ lastOp.arg = "none"
    /\ hist.stopped
    /\ hist.lastTick # NoTick

\* C9: an assignment to a drone whose entry is bound to another Run changes
\* nothing in the directory and sends the drone no message.
C9_BusyAssignRejected ==
    [][(/\ lastOp'.op = "change-drone-status" /\ lastOp'.arg = "busy"
        /\ Present(lastOp'.drone)
        /\ connectedDrones[lastOp'.drone].missionId \notin {None, lastOp'.mission})
          => (connectedDrones' = connectedDrones /\ toDrone' = toDrone)]_vars

\* C10: a control command for a Run that no directory entry is bound to leaves
\* the directory as it was, sends no drone a message and broadcasts nothing.
C10_UnownedControlIsNoOp ==
    [][(/\ lastOp'.op = "mission-control"
        /\ \A d \in Drones : ~(Present(d) /\ connectedDrones[d].missionId = lastOp'.mission))
          => (/\ connectedDrones' = connectedDrones
              /\ toDrone' = toDrone
              /\ emitted' = <<>>)]_vars

\* A control command found no owner while a drone was connected and bound to
\* another Run.
C10_Witness ==
    /\ lastOp.op = "mission-control" /\ lastOp.drone = None
    /\ \E d \in Drones : Present(d) /\ live[d] # 0 /\ connectedDrones[d].missionId # None

\* C11: a control command for a Run whose owning drone has disconnected and
\* not reconnected leaves that drone's directory entry exactly as it was.
C11_OfflineOwnerControlIsNoOp ==
    [][\A d \in Drones :
         (/\ lastOp'.op = "mission-control" /\ lastOp'.drone = d
          /\ connectedDrones[d].status = "disconnected")
            => connectedDrones'[d] = connectedDrones[d]]_vars

Unscored(r) == [r EXCEPT !.infection_score = 0, !.weed_score = 0, !.yield_score = 0]

\* C13: when a drone connects and its entry is bound to a Run, one payload is
\* pushed to its socket, for that Run, carrying every report of the Run that
\* the server received since the last flush; when no Run is bound, nothing
\* is pushed.
C13_ResyncCarriesUnflushed ==
    (lastOp.op = "connection")
        => IF lastOp.mission = None THEN toDrone = <<>>
           ELSE /\ Len(toDrone) = 1
                /\ toDrone[1].ev = "change-drone-status"
                /\ toDrone[1].mission = lastOp.mission
                /\ LET sent == {Unscored(toDrone[1].recentTelemetry[j]) :
                                   j \in 1..Len(toDrone[1].recentTelemetry)}
                   IN  /\ \A j \in 1..Len(recentTelemetry[lastOp.mission]) :
                              Unscored(recentTelemetry[lastOp.mission][j]) \in sent
                       /\ \A k \in 1..Len(calls) :
                              (calls[k].pc = "fetch"
                               /\ calls[k].data.mission_id = lastOp.mission)
                                 => Unscored(calls[k].data) \in sent

\* C14: every insert the handler issues carries exactly BatchSize reports, the
\* ones that arrived since the reports of the insert before it, in the order
\* of arrival; a list that has reached BatchSize has its insert in flight; and
\* when the insert has returned the Run's list is empty.
C14_ThresholdFlush ==
    /\ (hist.batch # <<>>)
          => /\ Len(hist.batch) = BatchSize
             /\ \A j \in 1..Len(hist.batch) : hist.batch[j] = hist.issued + j
    /\ \A m \in Missions :
          (Len(recentTelemetry[m]) >= BatchSize)
            => \E k \in 1..Len(calls) :
                  calls[k].pc = "insert" /\ calls[k].data.mission_id = m
    /\ (lastOp.op = "telemetry-inserted") => recentTelemetry[lastOp.mission] = <<>>

\* C15: when the store refused an insert, the reports of that insert are still
\* in the Run's list, so the list holds BatchSize reports or more.
C15_FailedInsertKeepsBatch ==
    (lastOp.op = "telemetry-inserted" /\ lastOp.arg = "error")
        => Len(recentTelemetry[lastOp.mission]) >= BatchSize

\* C16: the reports of a Run are pushed to its list, and broadcast to the
\* dashboard, in the order in which they arrived: the report pushed last and
\* the report broadcast last are the latest of those pushed and broadcast.
C16_ReportsKeepOrder ==
    /\ hist.pushed = hist.pushedMax
    /\ hist.cast = hist.castMax

\* C17: every report the server received is in the end in an insert the store
\* accepted; so are the reports left in a Run's list when the Run completes.
C17_EveryReportStored ==
    <>[](\A n \in 1..hist.nrx : n \in hist.durable)

\* C18: when the simulator resyncs from a traversing report it emitted at
\* segment i, step s, it restores segment i and a step within one of s.
C18_ResyncIdempotent ==
    (lastOp.op = "drone-change-status" /\ lastOp.arg = "resync" /\ hist.before # NoTick)
        => /\ sim.currentWaypointIndex = hist.before.i
           /\ sim.currentStep - hist.before.step \in {-1, 0, 1}

\* C19: in a Run whose route has total distance zero, no tick of the step
\* loop emits a report (the division by the total distance is never
\* evaluated), and no report carries an undefined progress.
C19_ZeroDistanceNoDivision ==
    (sim.mission # None /\ PrefixSum(Path(sim.mission), Len(Path(sim.mission))) = 0)
        => /\ ~(lastOp.op = "tick" /\ lastOp.arg = "trav")
           /\ hist.lastProg # NaN
           /\ \A k \in 1..Len(toServer) :
                 toServer[k].ev = "telemetry" => toServer[k].data.progress # NaN

\* C20: a pause handled by a simulator that is already paused changes none
\* of its fields (Run, segment, step, distance), emits no report and starts
\* or ends no call; a pause relayed by the server for an entry whose pause
\* flag is true leaves the flag true.
C20_RepeatedPauseIsNoOp ==
    [][/\ (/\ lastOp'.op = "drone-mission-control" /\ lastOp'.arg = "pause"
           /\ sim.mission # None /\ sim.isPaused)
             => (sim' = sim /\ toServer' = toServer /\ loops' = loops)
       /\ \A d \in Drones :
            (/\ lastOp'.op = "mission-control" /\ lastOp'.arg = "pause"
             /\ lastOp'.drone = d /\ connectedDrones[d].isPaused = "true")
               => connectedDrones'[d].isPaused = "true"]_vars

\* The simulator, paused in the middle of a segment, handled a second pause.
C20_Witness ==
    /\ lastOp.op = "drone-mission-control" /\ lastOp.arg = "pause"
    /\ hist.again
    /\ hist.before # NoTick
    /\ connectedDrones[Sim].isPaused = "true"

\* C21: when the scoring call of a report threw or was refused, the handler
\* appends the report to the Run's list with infection 0, weed 0 and yield 4.5
\* and broadcasts it (after the insert, when the list reached BatchSize), and
\* the step changes neither the simulator's Run nor the directory.
C21_ScoringFailureKeepsReport ==
    [][/\ (lastOp'.op = "telemetry-scored" /\ hist'.ai \in {"down", "refused"})
            => LET m == lastOp'.mission
                   list == recentTelemetry'[m]
               IN  /\ Len(list) = Len(recentTelemetry[m]) + 1
                   /\ SubSeq(list, 1, Len(list) - 1) = recentTelemetry[m]
                   /\ \E k \in 1..Len(calls) :
                         /\ calls[k].pc = "fetch"
                         /\ Unscored(Last(list)) = Unscored(calls[k].data)
                         /\ \/ /\ calls' = RemoveAt(calls, k)
                               /\ Emit("dashboard", "telemetry", m, 0) \in
                                     {emitted'[j] : j \in 1..Len(emitted')}
                            \/ /\ Len(calls') = Len(calls)
                               /\ calls'[k].pc = "insert"
                               /\ calls'[k].data = Last(list)
                   /\ Last(list).infection_score = 0
                   /\ Last(list).weed_score = 0
                   /\ Last(list).yield_score = 45
                   /\ sim' = sim /\ loops' = loops /\ toServer' = toServer
                   /\ connectedDrones' = connectedDrones
                   /\ missionStatus' = missionStatus
       /\ (lastOp'.op = "telemetry-inserted")
            => Emit("dashboard", "telemetry", lastOp'.mission, 0) \in
                  {emitted'[j] : j \in 1..Len(emitted')}]_vars

\* The scoring service refused the call of a report that follows, in the
\* Run's list, one it had answered with scores of its own.
C21_Witness ==
    /\ lastOp.op = "telemetry-scored" /\ hist.ai = "refused"
    /\ LET list == recentTelemetry[lastOp.mission]
       IN  /\ Len(list) >= 2
           /\ Last(list).yield_score = 45
           /\ list[Len(list) - 1].infection_score = 100

\* The squared distance, times td * td, from (Px, Py) to the point of the
\* segment from A to B at the fraction j / td.
SampleDist2(A, B, Px, Py, j, td) ==
    LET dx == td * (Px - A[1]) - j * (B[1] - A[1])
        dy == td * (Py - A[2]) - j * (B[2] - A[2])
    IN  dx * dx + dy * dy

\* C22: when the simulator resyncs on a route of two points or more, the
\* search on the position of the payload's last report returns a segment
\* index within 0 .. Len(route) - 2, a fraction t within [0, 1] and a distance
\* that is not negative, is the distance from the position to the point of
\* that segment at t, is the least of the segments' distances to their clamped
\* projections, and is at most the distance from the position to each of the
\* stepsPerSegment + 1 evenly spaced points of every segment.
C22_ClosestPointBounds ==
    [][(/\ lastOp'.op = "drone-change-status" /\ lastOp'.arg = "resync"
        /\ Len(Path(lastOp'.mission)) >= 2)
          => LET path == Path(lastOp'.mission)
                 last == Last(Head(toDrone).recentTelemetry)
                 Px == last.latitude
                 Py == last.longitude
                 c == findClosestPointOnPath(path, Px, Py)
             IN  /\ c.found
                 /\ c.segmentIndex \in 0..(Len(path) - 2)
                 /\ c.td > 0 /\ 0 <= c.tn /\ c.tn <= c.td
                 /\ c.d2d > 0 /\ c.d2n >= 0
                 /\ c.d2d = c.td
                 /\ c.d2n * c.td =
                       SampleDist2(path[c.segmentIndex + 1], path[c.segmentIndex + 2],
                                   Px, Py, c.tn, c.td)
                 /\ \A k \in 1..(Len(path) - 1) :
                       /\ ~CloserThan(projectPointOntoSegment(
                                         path[k][1], path[k][2],
                                         path[k + 1][1], path[k + 1][2], Px, Py), c)
                       /\ \A j \in 0..stepsPerSegment :
                              c.d2n * stepsPerSegment * stepsPerSegment
                                 <= c.d2d * SampleDist2(path[k], path[k + 1], Px, Py,
                                                        j, stepsPerSegment)]_vars

\* The simulator resynced from a position off its route whose closest point is
\* inside the second segment, and restored that segment and a step inside it.
C22_Witness ==
    /\ lastOp.op = "drone-change-status" /\ lastOp.arg = "resync"
    /\ Len(Path("m1")) >= 3
    /\ sim.currentWaypointIndex = 1
    /\ sim.currentStep \in 1..(stepsPerSegment - 1)
    /\ LET c == findClosestPointOnPath(Path("m1"), hist.lastRx["m1"].latitude,
                                       hist.lastRx["m1"].longitude)
       IN  c.d2n > 0 /\ c.segmentIndex = 1

\* C23: whenever the simulator holds a Run whose route has two points or
\* more, its segment index is within 0 .. Len(route) - 2, its step within
\* 0 .. stepsPerSegment, and its distance travelled is at most the total
\* distance of the route.
C23_MotionInvariant ==
    (sim.mission # None /\ Len(Path(sim.mission)) >= 2)
        => /\ sim.currentWaypointIndex \in 0..(Len(Path(sim.mission)) - 2)
           /\ sim.currentStep \in 0..stepsPerSegment
           /\ sim.distanceTraveled <= sim.totalDistance

\* C24: on a route of one segment, the k-th traversing report of a Run
\* started once from a fresh assignment and not disturbed since (k at most
\* stepsPerSegment) is emitted at segment 0, step k, carries the position
\* interpolated at k / stepsPerSegment and the progress k / stepsPerSegment
\* of 100.
C24_TicksFromStart ==
    (/\ sim.mission # None /\ Len(Path(sim.mission)) = 2
     /\ hist.fresh.k \in 1..stepsPerSegment)
        => LET k == hist.fresh.k
               A == Path(sim.mission)[1]
               B == Path(sim.mission)[2]
           IN  /\ hist.fresh.i = 0
               /\ hist.fresh.step = k
               /\ hist.fresh.lat = lerp(A[1], B[1], k, stepsPerSegment)
               /\ hist.fresh.lon = lerp(A[2], B[2], k, stepsPerSegment)
               /\ hist.lastProg = PercentOf(k, stepsPerSegment)

\* C25: a tick of the step loop lowers the battery by BatteryDrain give or take
\* BatteryFluct, or to 0, and keeps it within 0 .. FullBattery; in a running
\* process the battery rises only when the simulator handles a payload that
\* carries a cached report; and the battery percent of a report the server
\* receives for a Run is within 0 .. 100 and at most that of the report it
\* received before for that Run.
C25_BatteryNonIncreasing ==
    [][/\ (lastOp'.op = "tick" /\ lastOp'.arg = "trav")
            => /\ sim'.battery \in 0..FullBattery
               /\ \/ sim.battery - sim'.battery \in
                        (BatteryDrain - BatteryFluct)..(BatteryDrain + BatteryFluct)
                  \/ sim'.battery = 0 /\ sim.battery < BatteryDrain + BatteryFluct
       /\ (sim.proc /\ sim'.proc /\ sim'.battery > sim.battery)
            => /\ lastOp'.op = "drone-change-status"
               /\ Head(toDrone).recentTelemetry # <<>>
       /\ (lastOp'.op = "telemetry")
            => LET m == lastOp'.mission
               IN  /\ hist'.lastRx[m].battery_percent \in 0..100
                   /\ hist.lastRx[m] # NoReport
                         => hist'.lastRx[m].battery_percent
                               <= hist.lastRx[m].battery_percent]_vars

\* C26: in a Run assigned with no cached report to a simulator that held no
\* Run, and started, every ascending tick raises the altitude by RampStep, to
\* the Run's target altitude at most, and no tick emits a traversing report
\* while the altitude is below the Run's target altitude.
C26_AscentBeforeTraverse ==
    [][(/\ lastOp'.op = "tick" /\ sim.mission # None
        /\ hist.starts >= 1 /\ ~hist.cached /\ ~hist.disturbed)
          => /\ (lastOp'.arg = "ramp")
                   => sim'.altitude = Min(TargetAltitude(sim.mission),
                                          sim.altitude + RampStep)
             /\ (lastOp'.arg = "trav")
                   => sim.altitude >= TargetAltitude(sim.mission)]_vars


\* C27: a call that wakes while the pause flag is set ends, in the ascent as in
\* the step loop: it leaves the set of suspended calls instead of sleeping again.
C27_PauseExitsLoop ==
    [][(lastOp'.op = "tick" /\ sim.isPaused) => Len(loops') < Len(loops)]_vars


\* C28: when a drone connects and its entry is bound to a Run, every report of
\* that Run whose handler is suspended at that moment, on the scoring call or
\* on the insert, is in the payload pushed to the drone.
C28_ResyncSeesPendingReports ==
    [][(lastOp'.op = "connection" /\ lastOp'.mission # None)
          => /\ toDrone' # <<>>
             /\ LET sent == Last(toDrone').recentTelemetry
                IN  \A k \in 1..Len(calls) :
                        (calls[k].data.mission_id = lastOp'.mission)
                           => \E j \in 1..Len(sent) :
                                  Unscored(sent[j]) = Unscored(calls[k].data)]_vars


\* C29: when the simulator resyncs on a route of two points or more, every
\* segment before the one the search returns is strictly farther from the
\* position, so of several segments at the least distance the lowest index is
\* returned; the distance travelled it returns is the sum of the lengths of
\* the segments before it plus the part of its own length up to t; and the
\* progress of the report the simulator emits on resync is that distance over
\* the length of the route.
C29_FirstMinimumWins ==
    [][(/\ lastOp'.op = "drone-change-status" /\ lastOp'.arg = "resync"
        /\ Len(Path(lastOp'.mission)) >= 2)
          => LET path == Path(lastOp'.mission)
                 last == Last(Head(toDrone).recentTelemetry)
                 Px == last.latitude
                 Py == last.longitude
                 c == findClosestPointOnPath(path, Px, Py)
                 s == c.segmentIndex + 1
             IN  /\ \A k \in 1..(s - 1) :
                        LET pk == projectPointOntoSegment(
                                      path[k][1], path[k][2],
                                      path[k + 1][1], path[k + 1][2], Px, Py)
                        IN  c.d2n * pk.d2d < pk.d2n * c.d2d
                 /\ c.distanceTraveled =
                        PrefixSum(path, s)
                        + (haversineDistance(path[s][1], path[s][2],
                                             path[s + 1][1], path[s + 1][2]) * c.tn)
                              \div c.td
                 /\ Len(toServer') > Len(toServer)
                 /\ toServer'[Len(toServer) + 1].data.progress =
                        IF PrefixSum(path, Len(path)) > 0
                        THEN PercentOf(c.distanceTraveled, PrefixSum(path, Len(path)))
                        ELSE 0]_vars

\* The simulator resynced from a position that two segments of its route, the
\* second and a later one, are equally close to, and restored the second.
C29_Witness ==
    /\ lastOp.op = "drone-change-status" /\ lastOp.arg = "resync"
    /\ Len(Path("m1")) >= 3
    /\ LET path == Path("m1")
           Px == hist.lastRx["m1"].latitude
           Py == hist.lastRx["m1"].longitude
           c == findClosestPointOnPath(path, Px, Py)
       IN  /\ c.segmentIndex = 1
           /\ c.distanceTraveled >= PrefixSum(path, 2)
           /\ PrefixSum(path, 2) > 0
           /\ \E k \in 3..(Len(path) - 1) :
                  LET pk == projectPointOntoSegment(
                                path[k][1], path[k][2],
                                path[k + 1][1], path[k + 1][2], Px, Py)
                  IN  c.d2n * pk.d2d = pk.d2n * c.d2d


\* C30: for a mission whose route is empty, the simulator sends no
\* mission-complete and the mission is never marked completed; and when the
\* simulator has handled a reconnect payload for it, it has not emitted a
\* report of a restored position, and the result of the search differs from
\* the result for a position at the start of a route of one segment (segment
\* 0, t 0, distance travelled 0, distance to the projection 0).
C30_EmptyRouteFails ==
    /\ \A j \in 1..Len(toServer) :
           (toServer[j].ev = "mission-complete")
              => Path(toServer[j].data.mission_id) # <<>>
    /\ \A m \in Missions : (Path(m) = <<>>) => missionStatus[m] # "completed"
    /\ (/\ lastOp.op = "drone-change-status" /\ lastOp.arg = "resync"
        /\ Path(lastOp.mission) = <<>>)
          => /\ toServer = <<>>
             /\ LET e == findClosestPointOnPath(<<>>, hist.lastRx[lastOp.mission].latitude,
                                                hist.lastRx[lastOp.mission].longitude)
                    g == findClosestPointOnPath(Route1, Route1[1][1], Route1[1][2])
                IN  ~(/\ e.found = g.found
                      /\ e.segmentIndex = g.segmentIndex
                      /\ e.tn * g.td = g.tn * e.td
                      /\ e.distanceTraveled = g.distanceTraveled
                      /\ e.d2n * g.d2d = g.d2n * e.d2d)


\* C31: a resumeMission call is left suspended in the simulator only when it
\* handles a start command, or a reconnect payload that says the Run is not
\* paused; and the payload the server pushes to a connecting drone says so
\* only for a Run whose status is running, never for one that is planned,
\* paused, aborted or completed.
C31_TicksOnlyOnStartOrRunning ==
    [][/\ (Len(loops') > Len(loops))
             => \/ (lastOp'.op = "drone-mission-control" /\ lastOp'.arg = "start")
                \/ (/\ lastOp'.op = "drone-change-status" /\ lastOp'.arg = "resync"
                    /\ ~Head(toDrone).isPaused)
       /\ (lastOp'.op = "connection" /\ lastOp'.mission # None /\ toDrone' # <<>>)
             => (~Last(toDrone').isPaused => missionStatus[lastOp'.mission] = "running")]_vars

\* C32: no two entries of the Map are bound to the same mission.
C32_OneOwnerPerRun ==
    \A m \in Missions : Cardinality(OwnersOf(m)) <= 1


\* C33: when the close of a socket reaches the server after its drone has
\* connected again, the disconnect handler changes no entry of the Map: the
\* drone's entry keeps its status, its new socket and its mission.
C33_LateDisconnectIgnored ==
    [][(lastOp'.op = "disconnect" /\ lastOp'.arg = "late")
          => connectedDrones' = connectedDrones]_vars

\* The close of the simulator's former socket reached the server after the
\* simulator had connected again, bound to m1, and resynced.
C33_Witness ==
    /\ lastOp.op = "disconnect" /\ lastOp.arg = "late" /\ lastOp.drone = Sim
    /\ connectedDrones[Sim].status = "busy"
    /\ connectedDrones[Sim].missionId = "m1"
    /\ connectedDrones[Sim].socketId = live[Sim]
    /\ sim.mission = "m1"


\* C34: no report is among the rows of two inserts in flight at once; and when
\* the store has accepted an insert, every report pushed so far is in an
\* accepted insert, in the rows of an insert in flight, or in its Run's list.
C34_NoLossNoDuplicate ==
    /\ \A j \in 1..Len(calls) : \A k \in 1..Len(calls) :
          (j < k /\ calls[j].pc = "insert" /\ calls[k].pc = "insert")
             => \A a \in 1..Len(calls[j].nums) : \A b \in 1..Len(calls[k].nums) :
                    calls[j].nums[a] # calls[k].nums[b]
    /\ (lastOp.op = "telemetry-inserted" /\ lastOp.arg = "ok")
          => \A n \in 1..hist.nrx :
                \/ n \in hist.durable
                \/ \E m \in Missions : \E a \in 1..Len(hist.order[m]) : hist.order[m][a] = n
                \/ \E k \in 1..Len(calls) :
                      \/ calls[k].pc = "fetch" /\ calls[k].n = n
                      \/ \E a \in 1..Len(calls[k].nums) : calls[k].nums[a] = n


\* C35: when the server handles the completion message of a Run whose route
\* has two points or more and a length above zero, the last report it received
\* for that Run carries the coordinate of the route's last point.
C35_CompletesAtLastPoint ==
    [][(/\ lastOp'.op = "mission-complete"
        /\ Len(Path(lastOp'.mission)) >= 2
        /\ PrefixSum(Path(lastOp'.mission), Len(Path(lastOp'.mission))) > 0)
          => /\ hist.lastRx[lastOp'.mission].latitude = Last(Path(lastOp'.mission))[1]
             /\ hist.lastRx[lastOp'.mission].longitude = Last(Path(lastOp'.mission))[2]]_vars


\* C36: when the simulator resyncs from a report of its ascent (progress 0),
\* the report it emits on resync has progress 0, and the resumeMission call it
\* makes is suspended in the ascent or at segment 0, step 0.
C36_AscentResyncAtStart ==
    [][(/\ lastOp'.op = "drone-change-status" /\ lastOp'.arg = "resync"
        /\ Head(toDrone).recentTelemetry # <<>>
        /\ Last(Head(toDrone).recentTelemetry).progress = 0
        /\ Len(Path(lastOp'.mission)) >= 2)
          => /\ Len(toServer') > Len(toServer)
             /\ toServer'[Len(toServer) + 1].data.progress = 0
             /\ Len(loops') > Len(loops)
             /\ Last(loops').i = 0
             /\ Last(loops').step = 0]_vars


\* C37: once the status of a mission is completed or aborted, no control
\* command the dashboard's buttons allow, and no completion message, changes it.
C37_TerminalStatusAbsorbing ==
    [][\A m \in Missions :
          (/\ missionStatus[m] \in {"completed", "aborted"}
           /\ \/ /\ lastOp'.op = "mission-control" /\ lastOp'.mission = m
                 /\ ControlEnabled(m, lastOp'.arg)
              \/ lastOp'.op = "mission-complete")
             => missionStatus'[m] = missionStatus[m]]_vars

\* ---- io.on('connection') for a drone step by step: the handler suspends at
\* its select of the mission the former entry was bound to, and other handlers
\* run meanwhile.  A suspended call has pc "select"; its data are the mission
\* selected, the drone and the socket of the connection.
\* The handler from its start to its await of the select, or to its end when
\* the former entry is bound to no mission
SrvConnectionBegin(d) ==
    /\ live[d] = 0
    /\ nextSock < MaxConnects
    /\ nextSock' = nextSock + 1
    /\ live' = [live EXCEPT ![d] = nextSock + 1]
    /\ LET existing == connectedDrones[d]
           bound == existing.missionId # None
           info == DroneInfo(d, nextSock + 1, existing.missionId, None,
                             IF bound THEN "busy" ELSE "idle")
       IN  /\ connectedDrones' = [connectedDrones EXCEPT ![d] = info]
           /\ mapOrder' = IF existing.status = "absent" THEN Append(mapOrder, d) ELSE mapOrder
           /\ lastOp' = Op("connection-begun", d, existing.missionId, None)
           /\ IF bound
              THEN /\ Len(calls) < MaxCalls
                   /\ calls' = Append(calls,
                          Call("select",
                               [mission_id |-> existing.missionId, drone |-> d,
                                socketId |-> nextSock + 1],
                               <<>>, 0, <<>>))
                   /\ emitted' = <<>>
              ELSE /\ calls' = calls
                   /\ emitted' = <<Emit("dashboard", "available-drones", None, 0)>>
    /\ toDrone' = IF d = Sim THEN <<>> ELSE toDrone
    /\ sim' = IF d = Sim THEN FreshSim(TRUE) ELSE sim
    /\ hist' = IF d = Sim THEN HistRestart(hist) ELSE hist
    /\ UNCHANGED <<closing, recentTelemetry, missionStatus, env, toServer, loops, cmds>>

\* Call k from the select's answer to the handler's end: the payload is built
\* from the row and the buffer as they are now, and goes to the socket of the
\* connection.
SrvConnectionLoaded(k) ==
    /\ k \in 1..Len(calls)
    /\ calls[k].pc = "select"
    /\ LET c == calls[k].data
           m == c.mission_id
           d == c.drone
       IN  /\ toDrone' = Deliver(toDrone, d, live[d] = c.socketId,
                  ChangeStatusMsg(m, missionStatus[m] = "paused",
                                  recentTelemetry[m], "busy", "connection"))
           /\ emitted' = <<Emit(d, "change-drone-status", m, Len(recentTelemetry[m])),
                           Emit("dashboard", "available-drones", None, 0)>>
           /\ lastOp' = Op("connection-loaded", d, m, None)
    /\ calls' = RemoveAt(calls, k)
    /\ UNCHANGED <<connectedDrones, mapOrder, closing, recentTelemetry, missionStatus, env,
                   live, nextSock, toServer, sim, loops, cmds, hist>>

NextReload ==
    \/ \E d \in Drones : SrvConnectionBegin(d)
    \/ \E k \in 1..MaxCalls : SrvConnectionLoaded(k)
    \/ \E d \in Drones : SrvDisconnect(d)
    \/ \E m \in Missions : \E a \in Actions : SrvMissionControl(m, a)
    \/ \E d \in Drones : \E m \in Missions : \E st \in {"idle", "busy"} :
          SrvChangeDroneStatus(d, m, st)
    \/ SrvTelemetry
    \/ SrvMissionComplete
    \/ DroneChangeStatus
    \/ DroneMissionControl
    \/ \E k \in 1..MaxLoops : LoopWake(k)

SpecReload == Init /\ [][NextReload]_vars

\* C38: a drone whose socket has closed and which has not connected again has
\* a directory entry of status 'disconnected': no assignment, clearing or
\* control command handled while it is offline makes the entry idle or busy.
C38_OfflineStaysDisconnected ==
    \A d \in Drones :
        (connectedDrones[d].status # "absent" /\ live[d] = 0)
            => connectedDrones[d].status = "disconnected"

\* C39: a connected drone sends reports for a mission only while its directory
\* entry is bound to that mission (once every message to it was delivered),
\* and a connection whose select of the mission returns after the entry was
\* cleared or bound to another mission does not send the drone that mission.
C39_ReportsOnlyWhileBound ==
    [][/\ (lastOp'.op = "tick" /\ Len(toServer') > Len(toServer) /\ toDrone = <<>>)
           => connectedDrones[Sim].missionId = Last(toServer').data.mission_id
       /\ (lastOp'.op = "connection-loaded" /\ Len(toDrone') > Len(toDrone))
           => connectedDrones[lastOp'.drone].missionId = lastOp'.mission]_vars

====
